---------------------------- MODULE Spec2Model ----------------------------
(***************************************************************************)
(* A model of irename.py: the script that renames the images and videos of *)
(* one folder after the date they were taken.                              *)
(*                                                                         *)
(* Strings are sequences of one-character strings, so that extensions,     *)
(* prefixes, EXIF date values and file names are built, split, parsed and  *)
(* compared character by character, as the script does.  A datetime is the *)
(* tuple <<year, month, day, hour, minute, second>>; the local time zone   *)
(* of datetime.fromtimestamp is taken to be UTC.                           *)
(***************************************************************************)
EXTENDS Integers, Sequences, FiniteSets, TLC

(***************************************************************************)
(* Bounds of the model.                                                    *)
(***************************************************************************)
MaxFiles == 2
MaxRuns == 2

(***************************************************************************)
(* Characters and string helpers.                                          *)
(***************************************************************************)
DigitSeq == <<"0", "1", "2", "3", "4", "5", "6", "7", "8", "9">>

DigitChars == {DigitSeq[i] : i \in 1..10}

DigitVal(ch) == (CHOOSE i \in 1..10 : DigitSeq[i] = ch) - 1

\* the decimal digits of n, zero-padded on the left to width w (strftime's
\* %Y, %m, %d, %H, %M, %S for four-digit years)
RECURSIVE Pad(_, _)
Pad(n, w) == IF w = 0 THEN <<>> ELSE Pad(n \div 10, w - 1) \o <<DigitSeq[(n % 10) + 1]>>

\* the number a sequence of digit characters spells
RECURSIVE Num(_)
Num(s) == IF s = <<>> THEN 0
          ELSE 10 * Num(SubSeq(s, 1, Len(s) - 1)) + DigitVal(s[Len(s)])

(***************************************************************************)
(* datetime                                                                *)
(***************************************************************************)
IsLeap(y) == (y % 4 = 0 /\ y % 100 # 0) \/ y % 400 = 0

DaysInMonth(y, m) ==
    IF m = 2 THEN (IF IsLeap(y) THEN 29 ELSE 28)
    ELSE IF m \in {4, 6, 9, 11} THEN 30 ELSE 31

\* datetime.fromtimestamp(t) for t >= 0: the civil date and time of day of
\* the epoch second t
fromtimestamp(t) ==
    LET days == t \div 86400
        secs == t % 86400
        z    == days + 719468
        era  == z \div 146097
        doe  == z - era * 146097
        yoe  == (doe - doe \div 1460 + doe \div 36524 - doe \div 146096) \div 365
        doy  == doe - (365 * yoe + yoe \div 4 - yoe \div 100)
        mp   == (5 * doy + 2) \div 153
        d    == doy - (153 * mp + 2) \div 5 + 1
        m    == IF mp < 10 THEN mp + 3 ELSE mp - 9
        y    == yoe + era * 400 + (IF m <= 2 THEN 1 ELSE 0)
    IN  <<y, m, d, secs \div 3600, (secs % 3600) \div 60, secs % 60>>

\* datetime.__lt__: field by field, most significant first
RECURSIVE TupleLess(_, _, _)
TupleLess(a, b, i) ==
    IF i > Len(a) THEN FALSE
    ELSE IF a[i] # b[i] THEN a[i] < b[i]
    ELSE TupleLess(a, b, i + 1)

DtLess(a, b) == TupleLess(a, b, 1)

\* Python's min(a, b): b only when it is strictly smaller
Min2(a, b) == IF DtLess(b, a) THEN b ELSE a

Min3(a, b, c) == Min2(Min2(a, b), c)

\* date.strftime("%Y%m%d_%H%M%S")
strftime(date) ==
    Pad(date[1], 4) \o Pad(date[2], 2) \o Pad(date[3], 2) \o <<"_">>
      \o Pad(date[4], 2) \o Pad(date[5], 2) \o Pad(date[6], 2)

\* the result of a call: the value it returns, or the exception it raises
Return(v) == [exc |-> "", val |-> v]

Raise(e) == [exc |-> e, val |-> <<>>]

ValueError == "ValueError"

\* the positions of the digits and of the separators of "%Y:%m:%d %H:%M:%S"
\* in a zero-padded value
ShapeOk(data) ==
    /\ Len(data) = 19
    /\ data[5] = ":" /\ data[8] = ":" /\ data[11] = " "
    /\ data[14] = ":" /\ data[17] = ":"
    /\ \A i \in (1..19) \ {5, 8, 11, 14, 17} : data[i] \in DigitChars

\* create_datetime: datetime.strptime(data, "%Y:%m:%d %H:%M:%S"), the
\* datetime, or the ValueError strptime raises.  The values the model draws
\* are all 19 characters long; the unpadded forms strptime also accepts are
\* not drawn.
create_datetime(data) ==
    IF ~ShapeOk(data) THEN Raise(ValueError)
    ELSE LET y  == Num(SubSeq(data, 1, 4))
             mo == Num(SubSeq(data, 6, 7))
             d  == Num(SubSeq(data, 9, 10))
             h  == Num(SubSeq(data, 12, 13))
             mi == Num(SubSeq(data, 15, 16))
             s  == Num(SubSeq(data, 18, 19))
         IN  IF /\ y >= 1
                /\ mo \in 1..12
                /\ d \in 1..DaysInMonth(y, mo)
                /\ h \in 0..23 /\ mi \in 0..59 /\ s \in 0..59
             THEN Return(<<y, mo, d, h, mi, s>>)
             ELSE Raise(ValueError)


(***************************************************************************)
(* Program constants.                                                      *)
(***************************************************************************)
\* the EXIF tag numbers the script looks up
DateTimeOriginal == 36867

DateTime == 306

valid_image_extensions ==
    { <<".", "j", "p", "g">>, <<".", "J", "P", "G">>,
      <<".", "j", "p", "e", "g">>, <<".", "J", "P", "E", "G">>,
      <<".", "p", "n", "g">>, <<".", "P", "N", "G">>,
      <<".", "h", "e", "i", "c">>, <<".", "H", "E", "I", "C">> }

valid_video_extensions ==
    { <<".", "M", "O", "V">>, <<".", "m", "o", "v">>, <<".", "M", "P", "4">>,
      <<".", "m", "p", "4">>, <<".", "M", "K", "V">>, <<".", "m", "k", "v">> }

folder_path == <<"PhotosCategories/BadmintonDays">>

\* the exceptions of the script and of the calls it makes
ExifMetadataNotFound == "ExifMetadataNotFound"

DateNotFoundInFile == "DateNotFoundInFile"

UnidentifiedImageError == "UnidentifiedImageError"

AttributeError == "AttributeError"

FileNotFoundError == "FileNotFoundError"

FileExistsError == "FileExistsError"

\* os.path.join(folder_path, file_name)
join(folder, name) == folder \o <<"/">> \o name

\* os.path.basename, on the paths join builds
basename(path) == SubSeq(path, Len(folder_path) + 2, Len(path))

\* os.path.splitext(name)[1]: from the last dot on, unless only dots come
\* before it
splitext(name) ==
    LET dots == {i \in 1..Len(name) : name[i] = "."}
    IN  IF dots = {} THEN <<>>
        ELSE LET i == CHOOSE k \in dots : \A j \in dots : j <= k
             IN  IF \E j \in 1..(i - 1) : name[j] # "."
                 THEN SubSeq(name, i, Len(name))
                 ELSE <<>>

(***************************************************************************)
(* The folder, the platform and the state of the script.                   *)
(*                                                                         *)
(* A file of the folder is a record:                                       *)
(*   image_ok     Image.open identifies it (line 114 returns)              *)
(*   exif_none    image.getexif() is None                                  *)
(*   exif         the tags of image.getexif(): tag number -> value         *)
(*   exifread     str(tags.get("EXIF DateTimeOriginal", "")) of exifread   *)
(*   st_mtime, st_ctime, st_birthtime   epoch seconds of os.stat           *)
(*   renamed_in   history: the run that last renamed it, 0 for none        *)
(***************************************************************************)
VARIABLES
    dir,            \* the folder: file name -> file
    has_birthtime,  \* os.stat results carry st_birthtime on this platform
    logs,           \* the text files of the working directory: name -> lines
    console,        \* the lines printed by the current run
    run,            \* the number of the current run of the script
    pc,             \* "start", "loop", "done" or "crashed"
    error,          \* the exception that ended the run, "" for none
    file_names,     \* os.listdir(folder_path)
    idx,            \* the position of the for loop in file_names
    file_name,      \* the module-level names the loop binds
    file_ext,
    new_file_name,
    last            \* history: what the last iteration of the loop did

vars == <<dir, has_birthtime, logs, console, run, pc, error, file_names, idx,
          file_name, file_ext, new_file_name, last>>

\* the system clock during run r: later than every timestamp of the folder,
\* and later in each run
Clock(r) == 1600000000 + 86400 * r

\* append_to_file(file_name, content): open(file_name, "a+"), write the
\* content and a newline
append_to_file(files, log_name, content) ==
    IF log_name \in DOMAIN files
    THEN [files EXCEPT ![log_name] = Append(@, content)]
    ELSE [n \in DOMAIN files \cup {log_name} |->
            IF n = log_name THEN <<content>> ELSE files[n]]

get_file_prefix(ext) ==
    IF ext \in valid_image_extensions THEN <<"I", "M", "G", "_">>
    ELSE IF ext \in valid_video_extensions THEN <<"V", "I", "D", "_">>
    ELSE <<>>

\* get_new_file_name as the script it was derived from wrote it: a dash
\* between date and time, and no prefix
get_new_file_name_dashed(date, file_extension, global_file_ext) ==
    Pad(date[1], 4) \o Pad(date[2], 2) \o Pad(date[3], 2) \o <<"-">>
      \o Pad(date[4], 2) \o Pad(date[5], 2) \o Pad(date[6], 2)
      \o global_file_ext

\* get_new_file_name(date, file_extension): the body never reads its
\* parameter file_extension; file_ext in it is the module-level name the
\* loop bound at line 153, passed here as global_file_ext
get_new_file_name(date, file_extension, global_file_ext) ==
    LET date_time == strftime(date)
    IN  get_file_prefix(global_file_ext) \o date_time \o global_file_ext

\* the birth time alone, without the minimum over the three timestamps
get_video_creation_date(f) ==
    IF ~has_birthtime THEN Raise(AttributeError)
    ELSE Return(fromtimestamp(f.st_birthtime))

\* get_file_creation_date: stat.st_birthtime raises AttributeError where
\* os.stat results have no such attribute
get_file_creation_date(f) ==
    LET dt_m == fromtimestamp(f.st_mtime)
        dt_c == fromtimestamp(f.st_ctime)
    IN  IF ~has_birthtime THEN Raise(AttributeError)
        ELSE LET c_time == fromtimestamp(f.st_birthtime)
             IN  Return(Min3(dt_m, dt_c, c_time))

\* the metadata date alone, without the comparison of line 139
date_taken_only(method_1_dt, date_taken) == date_taken

\* line 139: earlier_date = min(method_1_dt, date_taken)
earlier_of(method_1_dt, date_taken) == Min2(method_1_dt, date_taken)

get_orig_date_from_exifread(f) == f.exifread

\* the locals of a call of get_image_file_name that did not bind them
NoLocals == [date_taken |-> <<>>, method_1_dt |-> <<>>, earlier_date |-> <<>>]

\* get_image_file_name(folder_path, file_name) on file f: the result, with
\* the locals the call bound
get_image_file_name(f, name, global_file_ext) ==
    IF ~f.image_ok THEN Raise(UnidentifiedImageError) @@ NoLocals
    ELSE IF f.exif_none THEN Raise(ExifMetadataNotFound) @@ NoLocals
    ELSE LET metadata == f.exif
             exifread_dt_sr == get_orig_date_from_exifread(f)
             parsed ==
                 IF DateTimeOriginal \in DOMAIN metadata
                 THEN create_datetime(metadata[DateTimeOriginal])
                 ELSE IF DateTime \in DOMAIN metadata
                 THEN create_datetime(metadata[DateTime])
                 ELSE IF Len(exifread_dt_sr) > 0
                 THEN create_datetime(exifread_dt_sr)
                 ELSE Raise(DateNotFoundInFile)
         IN  IF parsed.exc # "" THEN Raise(parsed.exc) @@ NoLocals
             ELSE LET date_taken == parsed.val
                      method_1 == get_file_creation_date(f)
                  IN  IF method_1.exc # ""
                      THEN Raise(method_1.exc) @@
                             [NoLocals EXCEPT !.date_taken = date_taken]
                      ELSE LET method_1_dt == method_1.val
                               earlier_date == earlier_of(method_1_dt, date_taken)
                               ext == splitext(name)
                           IN  Return(get_new_file_name(earlier_date, ext,
                                                        global_file_ext)) @@
                                 [date_taken |-> date_taken,
                                  method_1_dt |-> method_1_dt,
                                  earlier_date |-> earlier_date]

\* os.rename(old_file_path, new_file_path) in folder d: the folder after
\* it, or the OSError.  An existing target is replaced (POSIX) or refused
\* (Windows); the renamed file's st_ctime is set to the clock or kept,
\* as the file system decides.
os_rename(d, old_file_path, new_file_path, touch, replace) ==
    LET old == basename(old_file_path)
        new == basename(new_file_path)
    IN  IF old \notin DOMAIN d THEN Raise(FileNotFoundError)
        ELSE IF new \in DOMAIN d /\ ~replace THEN Raise(FileExistsError)
        ELSE Return([n \in (DOMAIN d \ {old}) \cup {new} |->
                       IF n = new
                       THEN [d[old] EXCEPT
                               !.st_ctime = IF touch THEN Clock(run) ELSE @,
                               !.renamed_in = run]
                       ELSE d[n]])

\* the lines "# Rename the file" to the last print, 165-175 and again
\* 188-198: the lines printed, the folder afterwards and the exception
rename_file(d, name, new_name, touch, replace) ==
    LET old_file_path == join(folder_path, name)
        new_file_path == join(folder_path, new_name)
    IN  IF old_file_path = new_file_path
        THEN [printed |-> << <<"Skipping rename! -">> \o old_file_path >>,
              dir |-> d, exc |-> "", rename |-> "skipped"]
        ELSE LET r == os_rename(d, old_file_path, new_file_path, touch, replace)
                 heading == << <<"Old Name: ">> \o old_file_path,
                               <<"New Name: ">> \o new_file_path >>
             IN  IF r.exc = ""
                 THEN [printed |-> heading \o << <<"----------------------------">> >>,
                       dir |-> r.val, exc |-> "", rename |-> "renamed"]
                 ELSE [printed |-> heading,
                       dir |-> d, exc |-> r.exc, rename |-> "failed"]

(***************************************************************************)
(* The folders the runs start from.                                        *)
(***************************************************************************)
\* st_mtime, st_ctime and st_birthtime are drawn from
\* 2018-04-01 17:54:17, 2020-01-01 10:00:00 and 2020-01-02 09:00:00, in any
\* order: utime sets st_mtime to any value, and tools that restore or
\* import files set the birth time, to a camera's clock for one
Times == {1522605257, 1577872800, 1577955600}

\* EXIF date values: three dates and the value of a camera that never had
\* its clock set
Date2018 == <<"2", "0", "1", "8", ":", "0", "4", ":", "0", "1", " ", "1", "7", ":", "5", "4", ":", "1", "7">>

Date2019 == <<"2", "0", "1", "9", ":", "0", "7", ":", "0", "4", " ", "1", "2", ":", "0", "0", ":", "0", "0">>

Date2021 == <<"2", "0", "2", "1", ":", "0", "6", ":", "1", "5", " ", "0", "8", ":", "3", "0", ":", "0", "0">>

DateZero == <<"0", "0", "0", "0", ":", "0", "0", ":", "0", "0", " ", "0", "0", ":", "0", "0", ":", "0", "0">>

NoTags == [t \in {} |-> <<>>]

Tags(orig, dt) ==
    [t \in (IF orig = <<>> THEN {} ELSE {DateTimeOriginal})
             \cup (IF dt = <<>> THEN {} ELSE {DateTime}) |->
        IF t = DateTimeOriginal THEN orig ELSE dt]

\* what Pillow and exifread find in a file
Contents ==
    { [image_ok |-> FALSE, exif_none |-> FALSE, exif |-> NoTags, exifread |-> <<>>],
      [image_ok |-> TRUE, exif_none |-> TRUE, exif |-> NoTags, exifread |-> <<>>] }
    \cup
    { [image_ok |-> TRUE, exif_none |-> FALSE, exif |-> Tags(orig, dt), exifread |-> er] :
        orig \in {<<>>, Date2018, Date2021, DateZero},
        dt \in {<<>>, Date2019, DateZero},
        er \in {<<>>, Date2018, DateZero} }

SmallContents ==
    { c \in Contents :
        /\ DateTime \notin DOMAIN c.exif
        /\ c.exifread = <<>>
        /\ (DateTimeOriginal \in DOMAIN c.exif => c.exif[DateTimeOriginal] # Date2021) }

Stat(m, c, b) == [st_mtime |-> m, st_ctime |-> c, st_birthtime |-> b, renamed_in |-> 0]

Stats == {Stat(m, c, b) : m \in Times, c \in Times, b \in Times}

SmallStats == {Stat(1577955600, c, 1577955600) : c \in {1577872800, 1577955600}}

Names ==
    { <<"a", ".", "j", "p", "g">>, <<"a", ".", "J", "P", "G">>, <<"a", ".", "J", "p", "g">>, <<"a", ".", "h", "e", "i", "c">>, <<"a", ".", "m", "p", "4">>, <<"a", ".", "M", "p", "4">>, <<"a", ".", "m", "k", "v">>, <<"a", ".", "t", "x", "t">>,
      <<"I", "M", "G", "_", "2", "0", "1", "8", "0", "4", "0", "1", "_", "1", "7", "5", "4", "1", "7", ".", "j", "p", "g">>,
      <<"V", "I", "D", "_", "2", "0", "2", "0", "0", "1", "0", "1", "_", "1", "0", "0", "0", "0", "0", ".", "m", "k", "v">> }

SmallNames == { <<"a", ".", "j", "p", "g">>, <<"b", ".", "j", "p", "g">>, <<"c", ".", "m", "p", "4">>, <<"d", ".", "t", "x", "t">> }

\* a folder of one file, of any name, content and timestamps
OneFileFolders ==
    {[n \in {name} |-> c @@ st] : name \in Names, c \in Contents, st \in Stats}

\* the folders of at most MaxFiles files
SmallFolders ==
    UNION {[S -> {c @@ st : c \in SmallContents, st \in SmallStats}] :
             S \in {X \in SUBSET SmallNames : Cardinality(X) <= MaxFiles}}

\* os.listdir returns the names in arbitrary order
Listings(d) ==
    {s \in [1..Cardinality(DOMAIN d) -> DOMAIN d] :
        \A i, j \in DOMAIN s : i # j => s[i] # s[j]}

NoFile == [image_ok |-> FALSE, exif_none |-> FALSE, exif |-> NoTags, exifread |-> <<>>]
            @@ Stat(0, 0, 0)

NoStep ==
    [branch |-> "none", name |-> <<>>, file |-> NoFile, exc |-> "",
     date_taken |-> <<>>, fs_date |-> <<>>, resolved |-> <<>>, named |-> FALSE,
     rename |-> "none", aborted |-> FALSE]

Start(folders) ==
    /\ dir \in folders
    /\ has_birthtime \in BOOLEAN
    /\ logs = [n \in {} |-> <<>>]
    /\ console = <<>>
    /\ run = 1
    /\ pc = "start"
    /\ error = ""
    /\ file_names = <<>>
    /\ idx = 1
    /\ file_name = <<>>
    /\ file_ext = <<>>
    /\ new_file_name = <<>>
    /\ last = NoStep

Init == Start(SmallFolders)

InitFile == Start(OneFileFolders)

(***************************************************************************)
(* The script: one action for os.listdir, one for each way through the     *)
(* body of the for loop, one for the end of the loop, one for running the  *)
(* script again.                                                           *)
(***************************************************************************)
\* line 148
Listdir ==
    /\ pc = "start"
    /\ file_names' \in Listings(dir)
    /\ idx' = 1
    /\ pc' = "loop"
    /\ UNCHANGED <<dir, has_birthtime, logs, console, run, error, file_name,
                   file_ext, new_file_name, last>>

InLoop == pc = "loop" /\ idx <= Len(file_names)

Entry == file_names[idx]

\* lines 151-153: the loop binds file_name and file_ext
BindEntry ==
    /\ file_name' = Entry
    /\ file_ext' = splitext(Entry)

Continue ==
    /\ pc' = "loop"
    /\ idx' = idx + 1
    /\ error' = ""

\* an exception nothing catches ends the run
Abort(exc) ==
    /\ pc' = "crashed"
    /\ idx' = idx
    /\ error' = exc

Step(branch, exc) ==
    [NoStep EXCEPT !.branch = branch, !.name = Entry, !.file = dir[Entry],
                   !.exc = exc]

\* the branches without the test of line 158
classify_without_elif(ext) ==
    IF ext \in valid_image_extensions THEN "image" ELSE "video"

\* the branch of lines 156-163 an extension takes
classify(ext) ==
    IF ext \in valid_image_extensions THEN "image"
    ELSE IF ext \in valid_video_extensions THEN "video"
    ELSE "skip"

\* lines 162-163: else: continue
SkipEntry ==
    /\ InLoop
    /\ BindEntry
    /\ classify(file_ext') = "skip"
    /\ Continue
    /\ last' = Step("skip", "")
    /\ UNCHANGED <<dir, has_birthtime, logs, console, run, file_names,
                   new_file_name>>

\* lines 165-175 and 188-198 with the new name in hand
RenameEntry(step, name, printed, touch, replace) ==
    LET r == rename_file(dir, Entry, name, touch, replace)
    IN  /\ new_file_name' = name
        /\ console' = console \o printed \o r.printed
        /\ dir' = r.dir
        /\ IF r.exc = "" THEN Continue ELSE Abort(r.exc)
        /\ last' = [step EXCEPT !.named = TRUE, !.rename = r.rename,
                                !.aborted = (r.exc # "")]

\* lines 158-161, then 165-175
VideoEntry ==
    /\ InLoop
    /\ BindEntry
    /\ classify(file_ext') = "video"
    /\ LET video_creation_date == get_file_creation_date(dir[Entry])
       IN  IF video_creation_date.exc # ""
           THEN /\ Abort(video_creation_date.exc)
                /\ last' = [Step("video", video_creation_date.exc)
                              EXCEPT !.aborted = TRUE]
                /\ UNCHANGED <<dir, console, new_file_name>>
           ELSE \E touch, replace \in BOOLEAN :
                  RenameEntry([Step("video", "") EXCEPT
                                 !.fs_date = video_creation_date.val,
                                 !.resolved = video_creation_date.val],
                              get_new_file_name(video_creation_date.val,
                                                file_ext', file_ext'),
                              <<>>, touch, replace)
    /\ UNCHANGED <<has_birthtime, logs, run, file_names>>

ImageResult == get_image_file_name(dir[Entry], Entry, file_ext')

ImageStep(r) ==
    [Step("image", r.exc) EXCEPT !.date_taken = r.date_taken,
                                 !.fs_date = r.method_1_dt,
                                 !.resolved = r.earlier_date]

\* lines 156-157 when get_image_file_name returns, then 165-175
ImageEntry ==
    /\ InLoop
    /\ BindEntry
    /\ classify(file_ext') = "image"
    /\ ImageResult.exc = ""
    /\ \E touch, replace \in BOOLEAN :
         RenameEntry(ImageStep(ImageResult), ImageResult.val, <<>>, touch, replace)
    /\ UNCHANGED <<has_birthtime, logs, run, file_names>>

\* lines 177-179
ImageMetadataNotFound ==
    /\ InLoop
    /\ BindEntry
    /\ classify(file_ext') = "image"
    /\ ImageResult.exc = ExifMetadataNotFound
    /\ logs' = append_to_file(logs, "meta_not_found.txt", Entry)
    /\ console' = Append(console, <<"EXIF metadata not found in file: ">> \o Entry)
    /\ Continue
    /\ last' = ImageStep(ImageResult)
    /\ UNCHANGED <<dir, has_birthtime, run, file_names, new_file_name>>

\* lines 180-198
ImageDateNotFound ==
    /\ InLoop
    /\ BindEntry
    /\ classify(file_ext') = "image"
    /\ ImageResult.exc = DateNotFoundInFile
    /\ logs' = append_to_file(logs, "date_not_found.txt", Entry)
    /\ LET printed == << <<"Date not found in file: ">> \o Entry >>
           file_creation_date == get_file_creation_date(dir[Entry])
       IN  IF file_creation_date.exc # ""
           THEN /\ Abort(file_creation_date.exc)
                /\ console' = console \o printed
                /\ last' = [ImageStep(ImageResult) EXCEPT !.aborted = TRUE]
                /\ UNCHANGED <<dir, new_file_name>>
           ELSE \E touch, replace \in BOOLEAN :
                  RenameEntry([ImageStep(ImageResult) EXCEPT
                                 !.fs_date = file_creation_date.val,
                                 !.resolved = file_creation_date.val],
                              get_new_file_name(file_creation_date.val,
                                                file_ext', file_ext'),
                              printed, touch, replace)
    /\ UNCHANGED <<has_birthtime, run, file_names>>

\* any other exception of get_image_file_name: no except clause of lines
\* 177-180 names it
ImageRaises ==
    /\ InLoop
    /\ BindEntry
    /\ classify(file_ext') = "image"
    /\ ImageResult.exc \notin {"", ExifMetadataNotFound, DateNotFoundInFile}
    /\ Abort(ImageResult.exc)
    /\ last' = [ImageStep(ImageResult) EXCEPT !.aborted = TRUE]
    /\ UNCHANGED <<dir, has_birthtime, logs, console, run, file_names,
                   new_file_name>>

\* the for loop is through the listing
Finish ==
    /\ pc = "loop"
    /\ idx > Len(file_names)
    /\ pc' = "done"
    /\ UNCHANGED <<dir, has_birthtime, logs, console, run, error, file_names,
                   idx, file_name, file_ext, new_file_name, last>>

\* the script is run again on the folder as the last run left it; the
\* text files of the working directory stay
Rerun ==
    /\ pc \in {"done", "crashed"}
    /\ run < MaxRuns
    /\ run' = run + 1
    /\ pc' = "start"
    /\ error' = ""
    /\ console' = <<>>
    /\ file_names' = <<>>
    /\ idx' = 1
    /\ file_name' = <<>>
    /\ file_ext' = <<>>
    /\ new_file_name' = <<>>
    /\ last' = NoStep
    /\ UNCHANGED <<dir, has_birthtime, logs>>

Next ==
    \/ Listdir
    \/ SkipEntry
    \/ VideoEntry
    \/ ImageEntry
    \/ ImageMetadataNotFound
    \/ ImageDateNotFound
    \/ ImageRaises
    \/ Finish
    \/ Rerun

Spec == Init /\ [][Next]_vars

SpecFile == InitFile /\ [][Next]_vars


(***************************************************************************)
(* Vocabulary of the properties.                                           *)
(***************************************************************************)
\* str.lower() on the letters that occur in the extensions of the model
LowerChar(ch) ==
    CASE ch = "J" -> "j" [] ch = "P" -> "p" [] ch = "G" -> "g"
      [] ch = "E" -> "e" [] ch = "N" -> "n" [] ch = "H" -> "h"
      [] ch = "I" -> "i" [] ch = "C" -> "c" [] ch = "M" -> "m"
      [] ch = "O" -> "o" [] ch = "V" -> "v" [] ch = "K" -> "k"
      [] ch = "T" -> "t" [] ch = "X" -> "x"
      [] OTHER -> ch

Lower(s) == [i \in 1..Len(s) |-> LowerChar(s[i])]

\* the earliest datetime of a set
EarliestOf(S) == CHOOSE d \in S : \A e \in S : ~DtLess(e, d)

\* the three timestamps of a file as datetimes
StatDates(f) ==
    {fromtimestamp(f.st_mtime), fromtimestamp(f.st_ctime),
     fromtimestamp(f.st_birthtime)}

\* the part of a name from its last dot on
Suffix(name) ==
    LET i == CHOOSE k \in 1..Len(name) :
                 name[k] = "." /\ \A j \in (k + 1)..Len(name) : name[j] # "."
    IN  SubSeq(name, i, Len(name))

\* the date a name PPPPYYYYMMDD_HHMMSS.ext spells
NameDate(name) ==
    <<Num(SubSeq(name, 5, 8)), Num(SubSeq(name, 9, 10)), Num(SubSeq(name, 11, 12)),
      Num(SubSeq(name, 14, 15)), Num(SubSeq(name, 16, 17)), Num(SubSeq(name, 18, 19))>>

\* the last iteration computed a new name for an image or for a video
NamedImage == last.branch = "image" /\ last.named

NamedVideo == last.branch = "video" /\ last.named

(***************************************************************************)
(* C1.  When a metadata date is found for an image, the date in the new    *)
(* name is the earlier of the metadata date and the filesystem-derived     *)
(* timestamp: the metadata date when it is the earlier one, the filesystem *)
(* timestamp when the metadata date is the later one.                      *)
(***************************************************************************)
C1_EarlierOfMetadataAndFilesystem ==
    (NamedImage /\ last.exc = "") =>
        LET meta == last.date_taken
            fs   == EarliestOf(StatDates(last.file))
            used == NameDate(new_file_name)
        IN  /\ DtLess(meta, fs) => used = meta
            /\ DtLess(fs, meta) => used = fs
            /\ meta = fs => used = meta

\* an image whose DateTimeOriginal is later than every timestamp of the file
C1_Witness ==
    /\ NamedImage /\ last.exc = ""
    /\ DateTimeOriginal \in DOMAIN last.file.exif
    /\ last.file.exif[DateTimeOriginal] = Date2021
    /\ last.date_taken = <<2021, 6, 15, 8, 30, 0>>
    /\ DtLess(EarliestOf(StatDates(last.file)), last.date_taken)

(***************************************************************************)
(* C2.  The date in the new name of a video is the minimum of its mtime,   *)
(* ctime and birth time; no metadata date takes part, whatever the file    *)
(* holds, and a video never ends in a metadata failure.                    *)
(***************************************************************************)
C2_VideoUsesFilesystemMinimum ==
    /\ NamedVideo =>
         /\ NameDate(new_file_name) = EarliestOf(StatDates(last.file))
         /\ last.resolved = EarliestOf(StatDates(last.file))
         /\ last.date_taken = <<>>
    /\ last.branch = "video" => last.exc \in {"", AttributeError}

\* a video that holds an EXIF date earlier than all its timestamps, and
\* whose birth time is not its earliest timestamp
C2_Witness ==
    /\ NamedVideo
    /\ last.file.image_ok
    /\ DateTimeOriginal \in DOMAIN last.file.exif
    /\ last.file.exif[DateTimeOriginal] = Date2018
    /\ last.file.st_mtime = 1577872800
    /\ last.file.st_ctime = 1577955600
    /\ last.file.st_birthtime = 1577955600

C8_UnsupportedEntrySkipped ==
    [][(InLoop /\ splitext(Entry) \notin valid_image_extensions
               /\ splitext(Entry) \notin valid_video_extensions)
         => /\ dir' = dir
            /\ logs' = logs
            /\ console' = console
            /\ new_file_name' = new_file_name
            /\ last'.rename = "none" /\ ~last'.named
            /\ pc' = "loop" /\ idx' = idx + 1]_vars

\* the .txt file has just been passed over
C8_Witness ==
    /\ last.branch = "skip"
    /\ last.name = <<"a", ".", "t", "x", "t">>
    /\ pc = "loop" /\ idx = 2
    /\ <<"a", ".", "t", "x", "t">> \in DOMAIN dir

(***************************************************************************)
(* The failure categories of an image and the log file of each.            *)
(***************************************************************************)
\* a log file of the working directory, empty while nothing created it
Lines(log_name) == IF log_name \in DOMAIN logs THEN logs[log_name] ELSE <<>>

\* the category the last image fell in: unreadable_file when Image.open
\* raised, metadata_absent when getexif gave nothing, date_field_absent
\* when no tag of either reader was there
Category ==
    IF last.branch # "image" THEN "none"
    ELSE IF ~last.file.image_ok THEN "unreadable_file"
    ELSE IF last.file.exif_none THEN "metadata_absent"
    ELSE IF last.exc = DateNotFoundInFile THEN "date_field_absent"
    ELSE "none"

LogOf(category) ==
    CASE category = "unreadable_file" -> "invalid_image_files.txt"
      [] category = "metadata_absent" -> "meta_not_found.txt"
      [] category = "date_field_absent" -> "date_not_found.txt"

LoggedCategories == {"unreadable_file", "metadata_absent", "date_field_absent"}

(***************************************************************************)
(* C3.  An image that falls in one of the three categories has its name    *)
(* appended to the log file of the category and is then named, with the    *)
(* IMG_ prefix, from the filesystem-derived timestamp and renamed.  Stated *)
(* where os.stat has a birth time.                                         *)
(***************************************************************************)
C3_FailureLoggedThenRenamedFromFilesystem ==
    (has_birthtime /\ Category \in LoggedCategories) =>
        /\ Lines(LogOf(Category)) # <<>>
        /\ Lines(LogOf(Category))[Len(Lines(LogOf(Category)))] = last.name
        /\ last.named
        /\ last.rename \in {"renamed", "skipped"}
        /\ new_file_name =
             <<"I", "M", "G", "_">> \o strftime(EarliestOf(StatDates(last.file)))
               \o Suffix(last.name)

(***************************************************************************)
(* C4.  A failure of one of the three categories on one entry does not end *)
(* the run: when entries come after it in the listing, the loop goes on   *)
(* to them.  Stated where os.stat has a birth time; a run may still end    *)
(* on an OSError of os.rename.                                             *)
(***************************************************************************)
C4_FailureNeverAbortsRun ==
    (/\ has_birthtime
     /\ Category \in LoggedCategories
     /\ \E i \in 1..(Len(file_names) - 1) : file_names[i] = last.name) =>
        \/ pc \in {"loop", "done"}
        \/ pc = "crashed" /\ error \in {FileExistsError, FileNotFoundError}

(***************************************************************************)
(* C5.  Idempotence: for a file that a previous run renamed, the name      *)
(* computed now is the name it has, and the rename is skipped.             *)
(***************************************************************************)
C5_RenamedFileKeepsItsName ==
    (last.named /\ last.file.renamed_in >= 1 /\ last.file.renamed_in < run) =>
        /\ new_file_name = last.name
        /\ last.rename = "skipped"
        /\ last.name \in DOMAIN dir
        /\ dir[last.name] = last.file

(***************************************************************************)
(* C7.  Classification ignores the case of the extension: .jpg, .jpeg,     *)
(* .png and .heic in any mix of case are images, .mov, .mp4 and .mkv in    *)
(* any mix of case are videos.                                             *)
(***************************************************************************)
C7_ClassificationIgnoresCase ==
    last.branch # "none" =>
        LET ext == Lower(Suffix(last.name))
        IN  /\ ext \in {<<".", "j", "p", "g">>, <<".", "j", "p", "e", "g">>, <<".", "p", "n", "g">>, <<".", "h", "e", "i", "c">>}
                 => last.branch = "image"
            /\ ext \in {<<".", "m", "o", "v">>, <<".", "m", "p", "4">>, <<".", "m", "k", "v">>}
                 => last.branch = "video"

(***************************************************************************)
(* C9.  Where os.stat has no birth time the ctime stands in for it and a   *)
(* value is still returned: a video is named from the minimum of its       *)
(* mtime and ctime.                                                        *)
(***************************************************************************)
C9_CtimeStandsInForBirthTime ==
    (~has_birthtime /\ last.branch = "video") =>
        /\ last.named
        /\ pc # "crashed"
        /\ last.resolved = EarliestOf({fromtimestamp(last.file.st_mtime),
                                       fromtimestamp(last.file.st_ctime)})
        /\ new_file_name =
             <<"V", "I", "D", "_">> \o strftime(last.resolved) \o Suffix(last.name)

(***************************************************************************)
(* C10.  The date of an image is the first parseable value among tag       *)
(* 36867, tag 306 and the EXIF DateTimeOriginal of exifread, in this       *)
(* order; the image is date_field_absent only when none of them parses,    *)
(* and a value that does not parse never stops the chain.  Stated where    *)
(* os.stat has a birth time.                                               *)
(***************************************************************************)
C10_UnparsableValueFallsThrough ==
    (has_birthtime /\ last.branch = "image" /\ last.file.image_ok
       /\ ~last.file.exif_none) =>
        LET f == last.file
            sources ==
                (IF DateTimeOriginal \in DOMAIN f.exif
                 THEN <<f.exif[DateTimeOriginal]>> ELSE <<>>)
                \o (IF DateTime \in DOMAIN f.exif
                    THEN <<f.exif[DateTime]>> ELSE <<>>)
                \o (IF f.exifread # <<>> THEN <<f.exifread>> ELSE <<>>)
            good == {i \in 1..Len(sources) : create_datetime(sources[i]).exc = ""}
        IN  IF good = {}
            THEN last.exc = DateNotFoundInFile
            ELSE /\ last.exc = ""
                 /\ last.date_taken =
                      create_datetime(
                        sources[CHOOSE i \in good : \A j \in good : i <= j]).val
=============================================================================
